---- MODULE Spec2Model ----
(***************************************************************************)
(* EarlyAllocator<PAGE_SIZE> of arceos/modules/bump_allocator/src/lib.rs:  *)
(* a double-ended bump allocator over [start, end).  Bytes are allocated   *)
(* forward from b_pos, pages backward from p_pos, 'count' is the number of *)
(* byte allocations.                                                       *)
(*                                                                         *)
(* usize is modelled as an unsigned word of WordBits bits.  Rust's +, -    *)
(* and * on usize panic on overflow when the build has overflow checks     *)
(* (debug profile) and wrap modulo 2^bits when it has not (release         *)
(* profile); the profile is fixed when the program is built and is the     *)
(* variable overflow_checks, chosen in Init.  A panic ends the run         *)
(* (no_std kernel: panic = abort): panicked is set and nothing is enabled. *)
(***************************************************************************)
EXTENDS Integers, FiniteSets, Sequences, TLC

\* ------------------------------------------------------------------ bounds

\* Width of usize in bits (64 on the real targets, scaled down).
WordBits == 14

\* Number of allocator calls in one run.
MaxSteps == 6

\* ------------------------------------------------------- program constants

\* The const generic parameter PAGE_SIZE (0x100, the spec's scenario value).
PAGE_SIZE == 256

\* ------------------------------------------------------------ usize maths

RECURSIVE Pow2(_)
Pow2(n) == IF n = 0 THEN 1 ELSE 2 * Pow2(n - 1)

\* usize::MAX + 1
Word == Pow2(WordBits)

\* isize::MAX, the largest size a Layout may have after padding
ISIZE_MAX == (Word \div 2) - 1

\* a + b, a - b, a * b on usize as the release profile computes them
wrapping_add(a, b) == (a + b) % Word
wrapping_sub(a, b) == (a + Word - b) % Word
wrapping_mul(a, b) == (a * b) % Word

\* whether the debug profile panics on them ("attempt to ... with overflow")
add_overflows(a, b) == a + b >= Word
sub_overflows(a, b) == a < b
mul_overflows(a, b) == a * b >= Word

\* usize::is_power_of_two
is_power_of_two(x) == \E k \in 0..(WordBits - 1) : x = Pow2(k)

\* the mask taken from PAGE_SIZE instead of the alignment asked for
mask_down_to_page(x, align) == x - (x % PAGE_SIZE)

\* x & !(align - 1) for a power of two align: clear the low bits
mask_down(x, align) == x - (x % align)

\* Layout::pad_to_align().size(): size rounded up to a multiple of align
pad_to_align_size(layout) ==
    ((layout.size + layout.align - 1) \div layout.align) * layout.align

\* Layout::from_size_align accepts exactly these
ValidLayout(layout) ==
    /\ is_power_of_two(layout.align)
    /\ pad_to_align_size(layout) <= ISIZE_MAX

\* ------------------------------------------------------------------ state

VARIABLES
    start, end, b_pos, p_pos, count,   \* the fields of EarlyAllocator
    overflow_checks,                   \* build profile: TRUE = overflow panics
    panicked,                          \* a panic! has aborted the program
    last,                              \* the last call: op, arguments, result
    pre,                               \* the fields before the last call
    phase,                             \* "new" | "uninit" | "fresh" | "dirty"
    matched,                           \* every dealloc so far freed a live allocation
    live,                              \* byte allocations handed out and not yet freed
    nalloc, nfree,                     \* successful allocs / deallocs since init
    steps                              \* calls made

vars == <<start, end, b_pos, p_pos, count, overflow_checks, panicked, last, pre,
          phase, matched, live, nalloc, nfree, steps>>

\* the allocator as a value (self)
Self == [start |-> start, end |-> end, b_pos |-> b_pos, p_pos |-> p_pos,
         count |-> count]

\* ---------------------------------------------------------------- results

Ok(s, v)  == [self |-> s, res |-> "Ok", ret |-> v]
Err(s, e) == [self |-> s, res |-> e, ret |-> 0]
Unit(s)   == [self |-> s, res |-> "unit", ret |-> 0]
Panic(s)  == [self |-> s, res |-> "panic", ret |-> 0]

\* ---------------------------------------------------------------- queries

\* fn available_bytes(&self): self.p_pos - self.b_pos
available_bytes(s) == wrapping_sub(s.p_pos, s.b_pos)
available_bytes_overflows(s) == sub_overflows(s.p_pos, s.b_pos)

\* fn used_bytes(&self): self.b_pos - self.start
used_bytes(s) == wrapping_sub(s.b_pos, s.start)

\* fn total_bytes(&self): self.p_pos - self.start
total_bytes(s) == wrapping_sub(s.p_pos, s.start)

\* fn available_pages(&self): (self.p_pos - self.b_pos) / PAGE_SIZE
available_pages(s) == wrapping_sub(s.p_pos, s.b_pos) \div PAGE_SIZE
available_pages_overflows(s) == sub_overflows(s.p_pos, s.b_pos)

\* ------------------------------------------------------------- operations

\* pub const fn new()
new == [start |-> 0, end |-> 0, b_pos |-> 0, p_pos |-> 0, count |-> 0]

\* init with end set to size instead of start + size
init_end_is_size(s, a_start, a_size) ==
    LET s1 == [s EXCEPT !.start = a_start]
        s2 == [s1 EXCEPT !.end = a_size]
    IN  Unit([s2 EXCEPT !.b_pos = s2.start, !.p_pos = s2.end])

\* fn init(&mut self, start, size): count is not assigned
init(s, a_start, a_size) ==
    LET s1 == [s EXCEPT !.start = a_start]
    IN  IF overflow_checks /\ add_overflows(a_start, a_size)
        THEN Panic(s1)
        ELSE LET s2 == [s1 EXCEPT !.end = wrapping_add(a_start, a_size)]
             IN  Unit([s2 EXCEPT !.b_pos = s2.start, !.p_pos = s2.end])

\* fn add_memory: todo!()
add_memory(s, a_start, a_size) == Panic(s)

\* fn alloc(&mut self, layout)
alloc(s, layout) ==
    IF overflow_checks /\ available_bytes_overflows(s)
    THEN Panic(s)
    ELSE IF available_bytes(s) < layout.size
    THEN Err(s, "NoMemory")
    ELSE IF overflow_checks /\ add_overflows(s.b_pos, pad_to_align_size(layout))
    THEN Panic(s)
    ELSE LET s1 == [s EXCEPT !.b_pos = wrapping_add(s.b_pos, pad_to_align_size(layout))]
         IN  IF overflow_checks /\ add_overflows(s1.count, 1)
             THEN Panic(s1)
             ELSE LET s2 == [s1 EXCEPT !.count = wrapping_add(s1.count, 1)]
                  IN  \* NonNull::new(start as *mut u8).unwrap()
                      IF s.b_pos = 0 THEN Panic(s2) ELSE Ok(s2, s.b_pos)

\* dealloc with the reset of b_pos left out
dealloc_no_reset(s, pos, layout) ==
    IF overflow_checks /\ sub_overflows(s.count, 1)
    THEN Panic(s)
    ELSE Unit([s EXCEPT !.count = wrapping_sub(s.count, 1)])

\* fn dealloc(&mut self, pos, layout): pos and layout are not read
dealloc(s, pos, layout) ==
    IF overflow_checks /\ sub_overflows(s.count, 1)
    THEN Panic(s)
    ELSE LET s1 == [s EXCEPT !.count = wrapping_sub(s.count, 1)]
         IN  IF s1.count = 0
             THEN Unit([s1 EXCEPT !.b_pos = s1.start])
             ELSE Unit(s1)

\* alloc_pages with p_pos assigned before the capacity check
alloc_pages_commit_first(s, num_pages, align_pow2) ==
    IF ~is_power_of_two(align_pow2) \/ align_pow2 < PAGE_SIZE
    THEN Err(s, "InvalidParam")
    ELSE IF overflow_checks /\ mul_overflows(num_pages, PAGE_SIZE)
    THEN Panic(s)
    ELSE LET alloc_size == wrapping_mul(num_pages, PAGE_SIZE)
         IN  IF overflow_checks /\ sub_overflows(s.p_pos, alloc_size)
             THEN Panic(s)
             ELSE LET cand == mask_down(wrapping_sub(s.p_pos, alloc_size), align_pow2)
                      s1 == [s EXCEPT !.p_pos = cand]
                  IN  IF overflow_checks /\ sub_overflows(s.p_pos, cand)
                      THEN Panic(s1)
                      ELSE IF overflow_checks /\ available_pages_overflows(s)
                      THEN Panic(s1)
                      ELSE IF wrapping_sub(s.p_pos, cand) \div PAGE_SIZE
                                < available_pages(s)
                      THEN Err(s1, "NoMemory")
                      ELSE Ok(s1, cand)

\* alloc_pages with the alignment test written with && for ||
alloc_pages_and_test(s, num_pages, align_pow2) ==
    IF ~is_power_of_two(align_pow2) /\ align_pow2 < PAGE_SIZE
    THEN Err(s, "InvalidParam")
    ELSE IF overflow_checks /\ mul_overflows(num_pages, PAGE_SIZE)
    THEN Panic(s)
    ELSE LET alloc_size == wrapping_mul(num_pages, PAGE_SIZE)
         IN  IF overflow_checks /\ sub_overflows(s.p_pos, alloc_size)
             THEN Panic(s)
             ELSE LET cand == mask_down(wrapping_sub(s.p_pos, alloc_size), align_pow2)
                  IN  IF overflow_checks /\ sub_overflows(s.p_pos, cand)
                      THEN Panic(s)
                      ELSE IF overflow_checks /\ available_pages_overflows(s)
                      THEN Panic(s)
                      ELSE IF wrapping_sub(s.p_pos, cand) \div PAGE_SIZE
                                < available_pages(s)
                      THEN Err(s, "NoMemory")
                      ELSE Ok([s EXCEPT !.p_pos = cand], cand)

\* fn alloc_pages(&mut self, num_pages, align_pow2); the tail expression
\* `start` is the value handed back on success
alloc_pages(s, num_pages, align_pow2) ==
    IF ~is_power_of_two(align_pow2) \/ align_pow2 < PAGE_SIZE
    THEN Err(s, "InvalidParam")
    ELSE IF overflow_checks /\ mul_overflows(num_pages, PAGE_SIZE)
    THEN Panic(s)
    ELSE LET alloc_size == wrapping_mul(num_pages, PAGE_SIZE)
         IN  IF overflow_checks /\ sub_overflows(s.p_pos, alloc_size)
             THEN Panic(s)
             ELSE LET cand == mask_down(wrapping_sub(s.p_pos, alloc_size), align_pow2)
                  IN  IF overflow_checks /\ sub_overflows(s.p_pos, cand)
                      THEN Panic(s)
                      ELSE IF overflow_checks /\ available_pages_overflows(s)
                      THEN Panic(s)
                      ELSE IF wrapping_sub(s.p_pos, cand) \div PAGE_SIZE
                                < available_pages(s)
                      THEN Err(s, "NoMemory")
                      ELSE Ok([s EXCEPT !.p_pos = cand], cand)

\* fn dealloc_pages: todo!()
dealloc_pages(s, pos, num_pages) == Panic(s)

\* ----------------------------------------------------------------- inputs

\* init(start, size): a region at 0 and one at 0x1000; sizes of 6 bytes,
\* 16 pages, and one with start + size past usize::MAX
InitStarts == {0, 4096}
InitSizes  == {6, 4096, Word - 2048}

\* Layouts: small ones, one whose padding exceeds its size, a huge one
Layouts == {l \in {[size |-> 0, align |-> 1], [size |-> 5, align |-> 1],
                  [size |-> 5, align |-> 8], [size |-> 8, align |-> 8],
                  [size |-> ISIZE_MAX - 7, align |-> 8]} : ValidLayout(l)}

\* alloc_pages: page counts up to more than the region holds and one whose
\* byte size overflows usize; alignments: not a power of two, below
\* PAGE_SIZE, PAGE_SIZE and above
NumPages  == {0, 1, 16, 17, (Word \div PAGE_SIZE) + 1}
AlignPow2 == {3, 128, 256, 512}

\* ---------------------------------------------------------------- actions

CanCall == ~panicked /\ steps < MaxSteps

\* what every call does to the allocator and the record of the call
Call(op, x, y, r) ==
    /\ start' = r.self.start
    /\ end' = r.self.end
    /\ b_pos' = r.self.b_pos
    /\ p_pos' = r.self.p_pos
    /\ count' = r.self.count
    /\ panicked' = (r.res = "panic")
    /\ last' = [op |-> op, x |-> x, y |-> y, res |-> r.res, ret |-> r.ret]
    /\ pre' = Self
    /\ steps' = steps + 1
    /\ UNCHANGED overflow_checks

DoInit ==
    /\ CanCall
    /\ \E a_start \in InitStarts, a_size \in InitSizes :
         Call("init", a_start, a_size, init(Self, a_start, a_size))
    /\ phase' = IF phase = "new" THEN "fresh" ELSE "dirty"
    /\ matched' = TRUE
    /\ live' = {}
    /\ nalloc' = 0
    /\ nfree' = 0

DoAddMemory ==
    /\ CanCall
    /\ \E a_start \in {8192}, a_size \in {4096} :
         Call("add_memory", a_start, a_size, add_memory(Self, a_start, a_size))
    /\ phase' = IF phase = "new" THEN "uninit" ELSE phase
    /\ UNCHANGED <<matched, live, nalloc, nfree>>

DoAlloc ==
    /\ CanCall
    /\ \E layout \in Layouts :
         LET r == alloc(Self, layout)
         IN  /\ Call("alloc", layout.size, layout.align, r)
             /\ IF r.res = "Ok"
                THEN /\ nalloc' = nalloc + 1
                     /\ live' = live \cup {[id |-> nalloc + 1, addr |-> r.ret,
                                            size |-> layout.size,
                                            align |-> layout.align]}
                ELSE UNCHANGED <<nalloc, live>>
    /\ phase' = IF phase = "new" THEN "uninit" ELSE phase
    /\ UNCHANGED <<matched, nfree>>

\* dealloc of an allocation that is live
DoDealloc ==
    /\ CanCall
    /\ \E a \in live :
         /\ Call("dealloc", a.addr, a.size,
                 dealloc(Self, a.addr, [size |-> a.size, align |-> a.align]))
         /\ live' = live \ {a}
    /\ nfree' = nfree + 1
    /\ phase' = IF phase = "new" THEN "uninit" ELSE phase
    /\ UNCHANGED <<matched, nalloc>>

\* dealloc of something that is not a live allocation (a double free, a
\* pointer the allocator never returned)
DoDeallocStray ==
    /\ CanCall
    /\ \E pos \in {4096} :
         Call("dealloc", pos, 8, dealloc(Self, pos, [size |-> 8, align |-> 8]))
    /\ matched' = FALSE
    /\ nfree' = nfree + 1
    /\ phase' = IF phase = "new" THEN "uninit" ELSE phase
    /\ UNCHANGED <<live, nalloc>>

DoAllocPages ==
    /\ CanCall
    /\ \E num_pages \in NumPages, align_pow2 \in AlignPow2 :
         Call("alloc_pages", num_pages, align_pow2,
              alloc_pages(Self, num_pages, align_pow2))
    /\ phase' = IF phase = "new" THEN "uninit" ELSE phase
    /\ UNCHANGED <<matched, live, nalloc, nfree>>

DoDeallocPages ==
    /\ CanCall
    /\ \E pos \in {4096}, num_pages \in {1} :
         Call("dealloc_pages", pos, num_pages, dealloc_pages(Self, pos, num_pages))
    /\ phase' = IF phase = "new" THEN "uninit" ELSE phase
    /\ UNCHANGED <<matched, live, nalloc, nfree>>

Init ==
    /\ start = new.start
    /\ end = new.end
    /\ b_pos = new.b_pos
    /\ p_pos = new.p_pos
    /\ count = new.count
    /\ overflow_checks \in BOOLEAN
    /\ panicked = FALSE
    /\ last = [op |-> "new", x |-> 0, y |-> 0, res |-> "unit", ret |-> 0]
    /\ pre = new
    /\ phase = "new"
    /\ matched = TRUE
    /\ live = {}
    /\ nalloc = 0
    /\ nfree = 0
    /\ steps = 0

Next ==
    \/ DoInit
    \/ DoAddMemory
    \/ DoAlloc
    \/ DoDealloc
    \/ DoDeallocStray
    \/ DoAllocPages
    \/ DoDeallocPages

Spec == Init /\ [][Next]_vars
\* ------------------------------------------------------- claim vocabulary

\* the allocator was constructed, then init was its first call and the only
\* init, with start + size inside usize, and nothing has panicked
FreshlyInitialized ==
    /\ phase = "fresh"
    /\ ~panicked
    /\ start <= end

\* floor of x to a multiple of align, on the integers (x may be negative)
RoundDown(x, align) == x - (x % align)

\* sum of the padded sizes of a set of allocations
RECURSIVE PaddedSum(_)
PaddedSum(S) ==
    IF S = {} THEN 0
    ELSE LET a == CHOOSE a \in S : TRUE
         IN  pad_to_align_size([size |-> a.size, align |-> a.align])
               + PaddedSum(S \ {a})

ReturnedError == last.res \in {"NoMemory", "InvalidParam"}

\* ----------------------------------------------------------------- claims

\* C1: after init and any sequence of alloc, dealloc and alloc_pages calls,
\* start <= b_pos <= p_pos <= end.  (Stated for the build with overflow
\* checks, where no arithmetic wraps.)
C1_CursorOrder ==
    (FreshlyInitialized /\ matched /\ overflow_checks)
        => (start <= b_pos /\ b_pos <= p_pos /\ p_pos <= end)

\* C2: a successful alloc returns a with [a, a + size) inside the free
\* region [b_pos, p_pos) of the state before the call, and a successful
\* alloc_pages returns a with [a, a + n * PAGE_SIZE) inside it.  (Stated for
\* the build with overflow checks, where no arithmetic wraps.)
C2_CarvedFromFreeRegion ==
    (FreshlyInitialized /\ matched /\ overflow_checks /\ last.res = "Ok")
        => /\ last.op = "alloc"
                => (pre.b_pos <= last.ret /\ last.ret + last.x <= pre.p_pos)
           /\ last.op = "alloc_pages"
                => (pre.b_pos <= last.ret
                    /\ last.ret + last.x * PAGE_SIZE <= pre.p_pos)

\* C3: when alloc or alloc_pages returns NoMemory or InvalidParam, no field
\* differs from its value before the call.
C3_FailureLeavesState ==
    (last.op \in {"alloc", "alloc_pages"} /\ ReturnedError) => Self = pre

\* C3 witness: a failed page allocation and a failed byte allocation on an
\* allocator that holds a live byte allocation.
C3_Witness ==
    /\ last.op \in {"alloc", "alloc_pages"}
    /\ last.res = "NoMemory"
    /\ count > 0
    /\ b_pos > start

\* C4: with a valid alignment, alloc_pages fails with NoMemory and leaves
\* p_pos alone when the rounded-down candidate lies below b_pos, and succeeds
\* when the span [candidate, p_pos) fits in [b_pos, p_pos).  (Stated for the
\* build with overflow checks, where no arithmetic wraps.)
C4_CapacityCheck ==
    (/\ FreshlyInitialized /\ matched
     /\ last.op = "alloc_pages"
     /\ is_power_of_two(last.y) /\ last.y >= PAGE_SIZE
     /\ overflow_checks
     /\ pre.b_pos <= pre.p_pos)
        => LET cand == RoundDown(pre.p_pos - last.x * PAGE_SIZE, last.y)
           IN  /\ cand < pre.b_pos => (last.res = "NoMemory" /\ p_pos = pre.p_pos)
               /\ cand >= pre.b_pos => last.res = "Ok"

\* C5: alloc_pages with an alignment that is not a power of two or is below
\* PAGE_SIZE returns InvalidParam and changes no field, in any state.
C5_InvalidAlign ==
    (/\ last.op = "alloc_pages"
     /\ (~is_power_of_two(last.y) \/ last.y < PAGE_SIZE))
        => (last.res = "InvalidParam" /\ Self = pre)

\* C5 witness: a power of two below PAGE_SIZE is refused on an allocator
\* that has room for the pages asked for.
C5_Witness ==
    /\ FreshlyInitialized /\ matched
    /\ last.op = "alloc_pages"
    /\ last.y = 128
    /\ last.x = 1
    /\ last.res = "InvalidParam"
    /\ p_pos - b_pos >= PAGE_SIZE
    /\ count > 0

\* C6: a successful alloc_pages returns p_pos - num_pages * PAGE_SIZE
\* rounded down to a multiple of align_pow2, sets p_pos to it, leaves b_pos
\* and count alone, and the address is a multiple of align_pow2.
C6_PagesResult ==
    (FreshlyInitialized /\ matched /\ last.op = "alloc_pages" /\ last.res = "Ok")
        => /\ last.ret = RoundDown(pre.p_pos - last.x * PAGE_SIZE, last.y)
           /\ p_pos = last.ret
           /\ b_pos = pre.b_pos
           /\ count = pre.count
           /\ last.ret % last.y = 0

\* C7: with PAGE_SIZE = 0x100: after init(0x1000, 0x1000) available_bytes is
\* 0x1000; alloc(8, 8) then returns 0x1000 and used_bytes is 8;
\* alloc_pages(1, 0x100) then returns 0x1F00 and available_bytes is 0xEF8; a
\* later alloc_pages whose candidate falls below b_pos fails with NoMemory.
C7_AfterInit ==
    [start |-> 4096, end |-> 8192, b_pos |-> 4096, p_pos |-> 8192, count |-> 0]
C7_AfterAlloc ==
    [start |-> 4096, end |-> 8192, b_pos |-> 4104, p_pos |-> 8192, count |-> 1]
C7_AfterPages ==
    [start |-> 4096, end |-> 8192, b_pos |-> 4104, p_pos |-> 7936, count |-> 1]
C7_Scenario ==
    /\ (phase = "fresh" /\ last.op = "init" /\ last.x = 4096 /\ last.y = 4096
        /\ ~panicked)
          => (Self = C7_AfterInit /\ available_bytes(Self) = 4096)
    /\ (pre = C7_AfterInit /\ last.op = "alloc" /\ last.x = 8 /\ last.y = 8)
          => (last.res = "Ok" /\ last.ret = 4096 /\ used_bytes(Self) = 8
              /\ Self = C7_AfterAlloc)
    /\ (pre = C7_AfterAlloc /\ last.op = "alloc_pages" /\ last.x = 1
        /\ last.y = 256)
          => (last.res = "Ok" /\ last.ret = 7936 /\ available_bytes(Self) = 3832)
    /\ (pre = C7_AfterPages /\ last.op = "alloc_pages" /\ last.x = 17
        /\ last.y = 256)
          => (last.res = "NoMemory" /\ Self = pre)

\* C8: on a freshly initialized allocator, once N >= 1 successful allocs
\* have all been freed by N deallocs (in any order and interleaving),
\* used_bytes is 0 and b_pos is start, and the next successful alloc returns
\* start.
C8_BulkFree ==
    (FreshlyInitialized /\ matched /\ nfree >= 1)
        => /\ nfree = nalloc => (used_bytes(Self) = 0 /\ b_pos = start)
           /\ (nalloc = nfree + 1 /\ last.op = "alloc" /\ last.res = "Ok")
                => last.ret = start

\* C8 witness: the second of two deallocs has freed the last of two
\* allocations and moved the cursor from above start back to start.
C8_Witness ==
    /\ FreshlyInitialized /\ matched
    /\ nalloc = 2 /\ nfree = 2
    /\ last.op = "dealloc"
    /\ pre.b_pos > start /\ pre.count = 1
    /\ b_pos = start /\ count = 0

\* C9: a dealloc that leaves count > 0 does not change b_pos; while
\* count > 0, b_pos never decreases under alloc, dealloc and alloc_pages, so
\* alloc hands out no address below the b_pos it found.
C9_NoReuseWhileLive ==
    (/\ FreshlyInitialized /\ matched
     /\ last.op \in {"alloc", "dealloc", "alloc_pages"}
     /\ count > 0)
        => /\ last.op = "dealloc" => b_pos = pre.b_pos
           /\ pre.count > 0 => b_pos >= pre.b_pos
           /\ (last.op = "alloc" /\ last.res = "Ok") => last.ret >= pre.b_pos

\* C10: after successful allocs on a freshly initialized allocator, with no
\* dealloc (and no page allocated), used_bytes is the sum of the padded
\* sizes, each alloc returned the b_pos it found, and b_pos <= p_pos.
\* (Stated for the build with overflow checks, where no arithmetic wraps.)
C10_UsedIsPaddedSum ==
    (FreshlyInitialized /\ overflow_checks /\ nfree = 0 /\ p_pos = end)
        => /\ used_bytes(Self) = PaddedSum(live)
           /\ (last.op = "alloc" /\ last.res = "Ok") => last.ret = pre.b_pos
           /\ b_pos <= p_pos

\* C11: right after init(start, size) on a newly constructed allocator, with
\* start + size inside usize, total_bytes and available_bytes are size and
\* used_bytes is 0 (and none of the three subtractions overflows).
C11_QueriesAfterInit ==
    (/\ phase = "fresh" /\ last.op = "init" /\ ~panicked
     /\ last.x + last.y < Word)
        => /\ total_bytes(Self) = last.y
           /\ available_bytes(Self) = last.y
           /\ used_bytes(Self) = 0
           /\ ~available_bytes_overflows(Self)
           /\ ~sub_overflows(p_pos, start)
           /\ ~sub_overflows(b_pos, start)

\* C11 witness: the allocator was just initialized at a start other than 0.
C11_Witness ==
    /\ phase = "fresh" /\ last.op = "init" /\ ~panicked
    /\ last.x = 4096 /\ last.y = 6
    /\ start = 4096 /\ end = 4102

\* C12: on an allocator that was never initialized, every alloc and every
\* alloc_pages with a valid alignment returns NoMemory and changes no field.
C12_UninitializedFails ==
    (/\ phase = "uninit"
     /\ last.op \in {"alloc", "alloc_pages"}
     /\ last.op = "alloc_pages"
          => (is_power_of_two(last.y) /\ last.y >= PAGE_SIZE))
        => (last.res = "NoMemory" /\ Self = pre)

\* C13: add_memory and dealloc_pages report an explicit failure to the
\* caller (no success, no panic) and change no field.
C13_UnsupportedSignalled ==
    last.op \in {"add_memory", "dealloc_pages"}
        => (last.res \notin {"Ok", "unit", "panic"} /\ Self = pre)

\* C14 as claimed: after init with any start and size, end - p_pos is a
\* multiple of PAGE_SIZE, and after a successful alloc_pages p_pos is a
\* multiple of align_pow2.
C14_OffsetFromEnd ==
    (FreshlyInitialized /\ matched /\ overflow_checks)
        => /\ (end - p_pos) % PAGE_SIZE = 0
           /\ (last.op = "alloc_pages" /\ last.res = "Ok")
                => p_pos % last.y = 0

\* C14 as amended: p_pos is end or a multiple of PAGE_SIZE (so end - p_pos
\* is a multiple of PAGE_SIZE whenever end is one), and after a successful
\* alloc_pages p_pos is a multiple of align_pow2.
C14_PagesAligned ==
    /\ (p_pos = end \/ p_pos % PAGE_SIZE = 0)
    /\ end % PAGE_SIZE = 0 => (end - p_pos) % PAGE_SIZE = 0
    /\ (last.op = "alloc_pages" /\ last.res = "Ok") => p_pos % last.y = 0

\* C14 witness: pages were taken with an alignment of two pages from a
\* region whose end is not a multiple of PAGE_SIZE.
C14_Witness ==
    /\ FreshlyInitialized
    /\ last.op = "alloc_pages" /\ last.res = "Ok" /\ last.y = 512 /\ last.x >= 1
    /\ end % PAGE_SIZE # 0
    /\ p_pos # pre.p_pos

\* C15: alloc and alloc_pages end by returning a value or an error, never by
\* a panic.
C15_NoPanic ==
    last.op \in {"alloc", "alloc_pages"} => last.res # "panic"

\* C16: on a successful alloc_pages the span reserved, p_pos before minus
\* p_pos after, is at least num_pages * PAGE_SIZE and exceeds it by at most
\* align_pow2 - PAGE_SIZE.  (Stated for calls that find p_pos on a multiple
\* of PAGE_SIZE.)
C16_ReservedSpan ==
    (/\ FreshlyInitialized /\ matched
     /\ last.op = "alloc_pages" /\ last.res = "Ok"
     /\ pre.p_pos % PAGE_SIZE = 0)
        => /\ pre.p_pos - p_pos >= last.x * PAGE_SIZE
           /\ pre.p_pos - p_pos <= last.x * PAGE_SIZE + (last.y - PAGE_SIZE)

\* C17: init(start, size) in any prior state leaves b_pos = start,
\* p_pos = end = start + size and count = 0.  (Stated for the build with
\* overflow checks, where no arithmetic wraps.)
C17_InitResets ==
    (last.op = "init" /\ ~panicked /\ overflow_checks /\ last.x + last.y < Word)
        => /\ start = last.x
           /\ b_pos = start
           /\ end = last.x + last.y
           /\ p_pos = end
           /\ count = 0

\* C18: count is the number of successful allocs minus the number of
\* deallocs; a dealloc at count = 0 leaves count at 0 instead of wrapping
\* it, and a failed alloc does not change count.
C18_CountIsLive ==
    /\ (last.op = "dealloc" /\ pre.count = 0) => count = 0
    /\ (last.op = "alloc" /\ ReturnedError) => count = pre.count
    /\ (FreshlyInitialized /\ matched) => count = nalloc - nfree

\* two byte spans share an address
Overlap(a, b) ==
    /\ a.size > 0 /\ b.size > 0
    /\ a.addr < b.addr + b.size
    /\ b.addr < a.addr + a.size

\* C19: when every dealloc frees a live allocation, the spans
\* [addr, addr + size) of the live byte allocations are pairwise disjoint.
C19_LiveDisjoint ==
    (FreshlyInitialized /\ matched)
        => \A a \in live, b \in live : a # b => ~Overlap(a, b)

\* C20: after init p_pos never increases under alloc, dealloc and
\* alloc_pages, and a page span just returned lies inside [p_pos, end).
C20_PagesPermanent ==
    (FreshlyInitialized /\ matched
     /\ last.op \in {"alloc", "dealloc", "alloc_pages"})
        => /\ p_pos <= pre.p_pos
           /\ (last.op = "alloc_pages" /\ last.res = "Ok")
                => (p_pos <= last.ret /\ last.ret + last.x * PAGE_SIZE <= end)

====
